---- MODULE Spec2Model ----
(***************************************************************************)
(* A model of github.com/tvastar/nice: the lisp-like call expression       *)
(* format (nice.go) and its JSON-like codec (json/json.go).                *)
(*                                                                         *)
(* A byte sequence is a sequence of one-character strings.  Go indexes     *)
(* from 0; the loop counters below keep Go's 0-based values and the        *)
(* helpers At and Slice translate to TLA+'s 1-based sequences.             *)
(***************************************************************************)
EXTENDS Integers, Sequences, FiniteSets, TLC

VARIABLES pc, op, inp, out

vars == <<pc, op, inp, out>>

(* ------------------------------------------------------------------ *)
(* Bounds of the checked instance                                      *)
(* ------------------------------------------------------------------ *)

\* longest byte sequence drawn over the whole alphabet
MaxLen == 5
\* longest byte sequence Escape is applied to
MaxEscLen == 4
\* deepest nesting of a call's Name drawn
MaxNest == 3
\* most arguments of a json:map call drawn
MaxMapArgs == 4
\* most elements of an array and keys of a map drawn
MaxElems == 2

(* ------------------------------------------------------------------ *)
(* Bytes                                                               *)
(* ------------------------------------------------------------------ *)

BSlash == "\\"
Open == "("
Close == ")"
Pipe == "|"

\* the four special bytes and one ordinary byte
Alphabet == {BSlash, Open, Close, Pipe, "x"}

\* s[kk] with Go's 0-based kk
At(s, kk) == s[kk + 1]

\* s[lo:hi] with Go's 0-based half-open bounds
Slice(s, lo, hi) == SubSeq(s, lo + 1, hi)

RECURSIVE SeqsUpTo(_, _)
SeqsUpTo(S, n) ==
  IF n = 0 THEN {<<>>}
  ELSE LET shorter == SeqsUpTo(S, n - 1)
       IN shorter \cup {Append(t, c) : t \in {u \in shorter : Len(u) = n - 1}, c \in S}

(* ------------------------------------------------------------------ *)
(* Escape (nice.go 180-199)                                            *)
(* ------------------------------------------------------------------ *)

\* IsSpecial without the escape byte itself
IsSpecialNoEscape(c) == c = Open \/ c = Close \/ c = Pipe

IsSpecial(c) == c = BSlash \/ c = Open \/ c = Close \/ c = Pipe

\* one iteration of the range loop; st = [kk, isnil, buf], where
\* [isnil, buf] is `result`
EscapeStep(s, st) ==
  LET c == At(s, st.kk)
      special == IsSpecial(c)
      st1 == IF special /\ st.isnil
             THEN [st EXCEPT !.isnil = FALSE, !.buf = Slice(s, 0, st.kk)]
             ELSE st
      st2 == IF special THEN [st1 EXCEPT !.buf = Append(@, BSlash)] ELSE st1
      st3 == IF ~st2.isnil THEN [st2 EXCEPT !.buf = Append(@, c)] ELSE st2
  IN [st3 EXCEPT !.kk = @ + 1]

RECURSIVE EscapeLoop(_, _)
EscapeLoop(s, st) ==
  IF st.kk >= Len(s) THEN st ELSE EscapeLoop(s, EscapeStep(s, st))

Escape(s) ==
  LET st == EscapeLoop(s, [kk |-> 0, isnil |-> TRUE, buf |-> <<>>])
  IN IF ~st.isnil THEN st.buf ELSE s

(* ------------------------------------------------------------------ *)
(* Unescape (nice.go 203-224)                                          *)
(* ------------------------------------------------------------------ *)

\* the zero byte make() fills a fresh buffer with
Zero == "\\0"

\* make([]byte, n)
Make(n) == [i \in 1..n |-> Zero]

\* copy(dst, src): the first Len(src) bytes of dst overwritten
Copy(dst, src) == [i \in 1..Len(dst) |-> IF i <= Len(src) THEN src[i] ELSE dst[i]]

\* the switch of one iteration (Go takes the first case that is true);
\* st = [kk, isnil, buf, offset, slash], where [isnil, buf] is `result`
UnescapeSwitch(s, st) ==
  LET c == At(s, st.kk)
      store(t) == [t EXCEPT !.buf[t.offset + 1] = c, !.offset = @ + 1]
  IN IF ~st.slash /\ c = BSlash THEN st
     ELSE IF st.slash /\ st.isnil
     THEN store([st EXCEPT !.isnil = FALSE,
                           !.buf = Copy(Make(Len(s)), Slice(s, 0, st.kk - 1)),
                           !.offset = st.kk - 1])
     ELSE IF ~st.isnil THEN store(st)
     ELSE st

\* line 218, the update of slash after the switch
SlashAfter(slash, c) == ~slash /\ c = BSlash

UnescapeStep(s, st) ==
  [UnescapeSwitch(s, st) EXCEPT !.slash = SlashAfter(st.slash, At(s, st.kk)),
                                !.kk = @ + 1]

RECURSIVE UnescapeLoop(_, _)
UnescapeLoop(s, st) ==
  IF st.kk >= Len(s) THEN st ELSE UnescapeLoop(s, UnescapeStep(s, st))

Unescape(s) ==
  LET st == UnescapeLoop(s, [kk |-> 0, isnil |-> TRUE, buf |-> <<>>,
                             offset |-> 0, slash |-> FALSE])
  IN IF st.isnil THEN s ELSE Slice(st.buf, 0, st.offset)

(* ------------------------------------------------------------------ *)
(* Values, errors, handlers and resolvers as data                      *)
(* ------------------------------------------------------------------ *)

\* the nil error, and the errors the two packages build
NoErr == [msg |-> "nil", arg |-> <<>>]
Err(msg) == [msg |-> msg, arg |-> <<>>]
ErrArg(msg, arg) == [msg |-> msg, arg |-> arg]

ErrMissingClose == Err("nice: missing )")
ErrMismatchedClose == Err("nice: mismatched )")
ErrMismatchedOpen == Err("nice: mismatched (")
ErrNotAFunction == Err("nice: not a function")

\* interface{} values: the nil interface, Raw, a Handler
NilV == [t |-> "nil"]
RawV(b) == [t |-> "Raw", b |-> b]
HandlerV(h) == [t |-> "Handler", h |-> h]

\* a Handler is a function value; the model names it by the code it runs
\* and by the variables its closure captured
Hnd(tag) == [h |-> tag, name |-> <<>>, err |-> NoErr]
HndName(tag, name) == [h |-> tag, name |-> name, err |-> NoErr]

\* ErrorHandler (nice.go 86-91)
ErrorHandler(err) == [h |-> "error", name |-> <<>>, err |-> err]

\* a Resolver: a plain lookup function, or the method value lookup.Recurse
LookupR(id) == [kind |-> "lookup", id |-> id]
RecurseR(id) == [kind |-> "recurse", id |-> id]

\* the args parameter of a Handler: a nil slice or a non-nil one
NilArgs == [absent |-> TRUE, b |-> <<>>]
Args(b) == [absent |-> FALSE, b |-> b]

\* a []interface{}: a nil slice or a non-nil one
NilSlice == [isnil |-> TRUE, elems |-> <<>>]

RECURSIVE Eval(_, _), EvalLoop(_, _, _, _), EvalArgs(_, _), EvalArgsLoop(_, _, _)
RECURSIVE ApplyResolver(_, _), ApplyHandler(_, _, _), Recurse(_, _), Lookup(_, _)
RECURSIVE evalString(_, _), evalNumber(_, _), evalArray(_, _), evalMap(_, _)

(* ------------------------------------------------------------------ *)
(* The scanning loops of Eval and EvalArgs                             *)
(* ------------------------------------------------------------------ *)

\* the value of the loop counter after the iterations from kk on whose
\* byte is none of the four the switch names (they select no case):
\* the first kk' >= kk with kk' >= end or s[kk'] special
SkipOrdinary(s, kk, end) ==
  IF \E i \in kk..(end - 1) : IsSpecial(At(s, i))
  THEN CHOOSE i \in kk..(end - 1) :
         IsSpecial(At(s, i)) /\ \A j \in kk..(i - 1) : ~IsSpecial(At(s, j))
  ELSE IF kk >= end THEN kk ELSE end

(* ------------------------------------------------------------------ *)
(* Eval (nice.go 103-133)                                              *)
(*                                                                     *)
(* A result is [val, err, at, trace]: the two returned values, the     *)
(* line of the return statement taken, and the calls this invocation   *)
(* made, in order, each with the calls made inside it (sub).           *)
(* ------------------------------------------------------------------ *)

ResolveEvent(r, name, h, sub) ==
  [ev |-> "resolve", r |-> r, name |-> name, h |-> h, sub |-> sub]

HandleEvent(h, r, args, hr) ==
  [ev |-> "handle", h |-> h, r |-> r, args |-> args,
   val |-> hr.val, err |-> hr.err, sub |-> hr.trace]

EvalEvent(r, s, res) ==
  [ev |-> "eval", r |-> r, s |-> s, val |-> res.val, err |-> res.err, sub |-> res.trace]

\* the result of Eval when it returns h(r, args) and the call returned hr
Returned(r, name, args, line, res, hr) ==
  [val |-> hr.val, err |-> hr.err, at |-> line,
   trace |-> <<ResolveEvent(r, name, res.h, res.trace),
               HandleEvent(res.h, r, args, hr)>>]

\* the Handler res.h that r(name) returned, called with (r, args)
CallHandler(r, name, args, line, res) ==
  Returned(r, name, args, line, res, ApplyHandler(res.h, r, args))

\* return r(name)(r, args), at lines 117 and 132
Call(r, name, args, line) ==
  CallHandler(r, name, args, line, ApplyResolver(r, name))

\* return nil, Error(...)
EvalFail(err, line) == [val |-> NilV, err |-> err, at |-> line, trace |-> <<>>]

\* the args of line 117 cut as s[kk+1:], the final ')' kept
ArgsAfterPipeToEnd(s, kk) == Args(Slice(s, kk + 1, Len(s)))

\* s[kk+1:len(s)-1], the args of line 117
ArgsAfterPipe(s, kk) == Args(Slice(s, kk + 1, Len(s) - 1))

\* lines 128-132 without the check of nesting
EvalEndUnchecked(r, s, nesting) == Call(r, Slice(s, 1, Len(s) - 1), NilArgs, 132)

\* lines 128-132, after the loop
EvalEnd(r, s, nesting) ==
  IF nesting # 1 THEN EvalFail(ErrMismatchedOpen, 129)
  ELSE Call(r, Slice(s, 1, Len(s) - 1), NilArgs, 132)

\* which case of the switch of lines 113-125 the byte c selects
\* (Go takes the first case that is true)
EvalCase(c, nesting) ==
  IF c = BSlash THEN "escape"
  ELSE IF c = Pipe /\ nesting = 1 THEN "pipe"
  ELSE IF c = Open THEN "open"
  ELSE IF c = Close THEN "close"
  ELSE "none"

\* the loop of lines 112-126 from counter kk on.  The iterations over
\* ordinary bytes select no case and only advance kk; they are taken in
\* one step (SkipOrdinary).
EvalLoop(r, s, kk, nesting) ==
  LET k == SkipOrdinary(s, kk, Len(s) - 1)
  IN CASE k >= Len(s) - 1 -> EvalEnd(r, s, nesting)
       [] k < Len(s) - 1 /\ EvalCase(At(s, k), nesting) = "escape" ->
            EvalLoop(r, s, k + 2, nesting)
       [] k < Len(s) - 1 /\ EvalCase(At(s, k), nesting) = "pipe" ->
            Call(r, Slice(s, 1, k), ArgsAfterPipe(s, k), 117)
       [] k < Len(s) - 1 /\ EvalCase(At(s, k), nesting) = "open" ->
            EvalLoop(r, s, k + 1, nesting + 1)
       [] k < Len(s) - 1 /\ EvalCase(At(s, k), nesting) = "close" /\ nesting - 1 = 0 ->
            EvalFail(ErrMismatchedClose, 123)
       [] k < Len(s) - 1 /\ EvalCase(At(s, k), nesting) = "close" /\ nesting - 1 # 0 ->
            EvalLoop(r, s, k + 1, nesting - 1)
       [] k < Len(s) - 1 /\ EvalCase(At(s, k), nesting) = "none" ->
            EvalLoop(r, s, k + 1, nesting)

Eval(r, s) ==
  IF Len(s) = 0 \/ At(s, 0) # Open
  THEN [val |-> RawV(s), err |-> NoErr, at |-> 105, trace |-> <<>>]
  ELSE IF At(s, Len(s) - 1) # Close THEN EvalFail(ErrMissingClose, 108)
  ELSE EvalLoop(r, s, 1, 1)

(* ------------------------------------------------------------------ *)
(* EvalArgs (nice.go 139-176)                                          *)
(*                                                                     *)
(* A result is [vals, err, trace]; vals is the []interface{} returned. *)
(* ------------------------------------------------------------------ *)

\* return nil, err
ArgsFail(err, trace) == [vals |-> NilSlice, err |-> err, trace |-> trace]

\* append(result, v)
AppendSlice(sl, v) == [isnil |-> FALSE, elems |-> Append(sl.elems, v)]

\* lines 172-175: res is what Eval returned for the last segment seg
EvalArgsLast(r, st, seg, res) ==
  IF res.err # NoErr THEN ArgsFail(res.err, Append(st.trace, EvalEvent(r, seg, res)))
  ELSE [vals |-> AppendSlice(st.result, res.val), err |-> NoErr,
        trace |-> Append(st.trace, EvalEvent(r, seg, res))]

\* lines 167-175 without the evaluation of the last segment
EvalArgsEndDropsLast(r, s, st) ==
  IF st.nesting # 0 THEN ArgsFail(ErrMismatchedOpen, st.trace)
  ELSE [vals |-> st.result, err |-> NoErr, trace |-> st.trace]

\* lines 167-175, after the loop
EvalArgsEnd(r, s, st) ==
  IF st.nesting # 0 THEN ArgsFail(ErrMismatchedOpen, st.trace)
  ELSE EvalArgsLast(r, st, Slice(s, st.offset, Len(s)),
                    Eval(r, Slice(s, st.offset, Len(s))))

\* lines 152-156: res is what Eval returned for the segment seg
EvalArgsNext(r, s, st, seg, res) ==
  IF res.err # NoErr THEN ArgsFail(res.err, Append(st.trace, EvalEvent(r, seg, res)))
  ELSE EvalArgsLoop(r, s, [st EXCEPT !.result = AppendSlice(@, res.val),
                                     !.offset = st.kk + 1,
                                     !.trace = Append(@, EvalEvent(r, seg, res)),
                                     !.kk = @ + 1])

\* lines 151-156, a pipe at nesting 0
EvalArgsPipe(r, s, st) ==
  EvalArgsNext(r, s, st, Slice(s, st.offset, st.kk), Eval(r, Slice(s, st.offset, st.kk)))

\* which case of the switch of lines 147-164 the byte c selects
EvalArgsCase(c, nesting) ==
  IF c = BSlash THEN "escape"
  ELSE IF c = Pipe /\ nesting = 0 THEN "pipe"
  ELSE IF c = Open THEN "open"
  ELSE IF c = Close THEN "close"
  ELSE "none"

\* the loop of lines 146-165; st = [kk, nesting, offset, result, trace].
\* The iterations over ordinary bytes are taken in one step, as in EvalLoop.
EvalArgsLoop(r, s, st) ==
  LET k == SkipOrdinary(s, st.kk, Len(s))
      at == [st EXCEPT !.kk = k]
  IN CASE k >= Len(s) -> EvalArgsEnd(r, s, at)
       [] k < Len(s) /\ EvalArgsCase(At(s, k), st.nesting) = "escape" ->
            EvalArgsLoop(r, s, [at EXCEPT !.kk = @ + 2])
       [] k < Len(s) /\ EvalArgsCase(At(s, k), st.nesting) = "pipe" ->
            EvalArgsPipe(r, s, at)
       [] k < Len(s) /\ EvalArgsCase(At(s, k), st.nesting) = "open" ->
            EvalArgsLoop(r, s, [at EXCEPT !.nesting = @ + 1, !.kk = @ + 1])
       [] k < Len(s) /\ EvalArgsCase(At(s, k), st.nesting) = "close"
            /\ st.nesting - 1 < 0 ->
            ArgsFail(ErrMismatchedClose, st.trace)
       [] k < Len(s) /\ EvalArgsCase(At(s, k), st.nesting) = "close"
            /\ st.nesting - 1 >= 0 ->
            EvalArgsLoop(r, s, [at EXCEPT !.nesting = @ - 1, !.kk = @ + 1])
       [] k < Len(s) /\ EvalArgsCase(At(s, k), st.nesting) = "none" ->
            EvalArgsLoop(r, s, [at EXCEPT !.kk = @ + 1])

EvalArgs(r, a) ==
  IF a.absent THEN [vals |-> NilSlice, err |-> NoErr, trace |-> <<>>]
  ELSE EvalArgsLoop(r, a.b, [kk |-> 0, nesting |-> 0, offset |-> 0,
                             result |-> NilSlice, trace |-> <<>>])

(* ------------------------------------------------------------------ *)
(* Resolver.Recurse (nice.go 70-84)                                    *)
(*                                                                     *)
(* A resolver call returns [h, trace]: the Handler and the calls made. *)
(* ------------------------------------------------------------------ *)

\* the guard of line 71
DelegatesDirectly(name) == Len(name) > 0 /\ At(name, 0) # Open

\* the resolver handed to Eval at line 74: the receiver r itself
RecurseEvalResolver(id) == LookupR(id)

\* lines 75-83: res is what Eval(r, name) returned
RecurseEvaluated(r, name, res) ==
  [h |-> IF res.err # NoErr THEN ErrorHandler(res.err)
         ELSE IF res.val.t = "Handler" THEN res.val.h
         ELSE ErrorHandler(ErrNotAFunction),
   trace |-> <<EvalEvent(r, name, res)>>]

\* r(name), line 72
RecurseDirect(id, name, h) ==
  [h |-> h, trace |-> <<ResolveEvent(LookupR(id), name, h, <<>>)>>]

Recurse(id, name) ==
  IF DelegatesDirectly(name) THEN RecurseDirect(id, name, Lookup(id, name))
  ELSE RecurseEvaluated(RecurseEvalResolver(id), name,
                        Eval(RecurseEvalResolver(id), name))

\* r(name) for a Resolver value r
ApplyResolver(r, name) ==
  IF r.kind = "lookup" THEN [h |-> Lookup(r.id, name), trace |-> <<>>]
  ELSE Recurse(r.id, name)

(* ------------------------------------------------------------------ *)
(* strconv, as json.go uses it.  A float64 is kept as the decimal      *)
(* m * 10^e with m not divisible by 10 (0 is m = 0, e = 0), which is   *)
(* exact for the short decimals drawn here.                            *)
(* ------------------------------------------------------------------ *)

DigitChars == <<"0", "1", "2", "3", "4", "5", "6", "7", "8", "9">>

IsDigit(c) == \E i \in 1..10 : DigitChars[i] = c

DigitVal(c) == (CHOOSE i \in 1..10 : DigitChars[i] = c) - 1

AllDigits(s) == \A i \in 1..Len(s) : IsDigit(s[i])

Abs(n) == IF n < 0 THEN -n ELSE n

RECURSIVE Norm(_, _)
Norm(m, e) ==
  IF m = 0 THEN [m |-> 0, e |-> 0]
  ELSE IF m % 10 = 0 THEN Norm(m \div 10, e + 1)
  ELSE [m |-> m, e |-> e]

Float64V(m, e) == [t |-> "float64", m |-> Norm(m, e).m, e |-> Norm(m, e).e]

\* the decimal digits of n >= 0
RECURSIVE Digits(_)
Digits(n) ==
  IF n < 10 THEN <<DigitChars[n + 1]>>
  ELSE Append(Digits(n \div 10), DigitChars[(n % 10) + 1])

\* the value of a digit string, most significant first; 0 for the empty one
RECURSIVE DigitsVal(_)
DigitsVal(s) ==
  IF s = <<>> THEN 0
  ELSE 10 * DigitsVal(SubSeq(s, 1, Len(s) - 1)) + DigitVal(s[Len(s)])

\* strconv.FormatInt(v, 10)
FormatInt(n) == IF n < 0 THEN <<"-">> \o Digits(-n) ELSE Digits(n)

\* strconv.FormatFloat(v, 'E', -1, 64): d[.ddd]E+xx, the shortest digits
FormatFloat(f) ==
  LET ds == Digits(Abs(f.m))
      x == f.e + Len(ds) - 1
      xs == Digits(Abs(x))
  IN (IF f.m < 0 THEN <<"-">> ELSE <<>>)
     \o <<ds[1]>>
     \o (IF Len(ds) > 1 THEN <<".">> \o Tail(ds) ELSE <<>>)
     \o <<"E">> \o (IF x < 0 THEN <<"-">> ELSE <<"+">>)
     \o (IF Len(xs) < 2 THEN <<"0">> \o xs ELSE xs)

\* the first position of a byte of set S in s, or 0
FirstOf(s, S) ==
  IF \E i \in 1..Len(s) : s[i] \in S
  THEN CHOOSE i \in 1..Len(s) : s[i] \in S /\ \A j \in 1..(i - 1) : s[j] \notin S
  ELSE 0

StripSign(s) == IF s # <<>> /\ s[1] \in {"+", "-"} THEN Tail(s) ELSE s

IsNeg(s) == s # <<>> /\ s[1] = "-"

\* strconv.ParseFloat(s, 64) on decimal input [sign]digits[.digits][E[sign]digits];
\* everything else is a syntax error and yields 0 with the error
ParseFloat(s) ==
  LET body == StripSign(s)
      ePos == FirstOf(body, {"E", "e"})
      mant == IF ePos = 0 THEN body ELSE SubSeq(body, 1, ePos - 1)
      expo == IF ePos = 0 THEN <<>> ELSE SubSeq(body, ePos + 1, Len(body))
      dot == FirstOf(mant, {"."})
      ip == IF dot = 0 THEN mant ELSE SubSeq(mant, 1, dot - 1)
      fp == IF dot = 0 THEN <<>> ELSE SubSeq(mant, dot + 1, Len(mant))
      xd == StripSign(expo)
      ok == /\ AllDigits(ip) /\ AllDigits(fp) /\ Len(ip) + Len(fp) >= 1
            /\ (ePos # 0 => Len(xd) >= 1 /\ AllDigits(xd))
      mag == DigitsVal(ip \o fp)
      x == (IF IsNeg(expo) THEN -DigitsVal(xd) ELSE DigitsVal(xd)) - Len(fp)
  IN IF ok
     THEN [val |-> Float64V(IF IsNeg(s) THEN -mag ELSE mag, x), err |-> NoErr]
     ELSE [val |-> Float64V(0, 0),
           err |-> ErrArg("strconv.ParseFloat: parsing: invalid syntax", s)]

(* ------------------------------------------------------------------ *)
(* Package json: Resolve and the handlers (json/json.go 39-107)        *)
(* ------------------------------------------------------------------ *)

JsonNull == <<"j", "s", "o", "n", ":", "n", "u", "l", "l">>
JsonString == <<"j", "s", "o", "n", ":", "s", "t", "r", "i", "n", "g">>
JsonNumber == <<"j", "s", "o", "n", ":", "n", "u", "m", "b", "e", "r">>
JsonArray == <<"j", "s", "o", "n", ":", "a", "r", "r", "a", "y">>
JsonMap == <<"j", "s", "o", "n", ":", "m", "a", "p">>

StringV(s) == [t |-> "string", s |-> s]
ArrayV(sl) == [t |-> "array", isnil |-> sl.isnil, elems |-> sl.elems]
MapV(m) == [t |-> "map", m |-> m]

\* json.Resolve
Resolve(name) ==
  IF name = JsonNull THEN Hnd("evalNull")
  ELSE IF name = JsonString THEN Hnd("evalString")
  ELSE IF name = JsonNumber THEN Hnd("evalNumber")
  ELSE IF name = JsonArray THEN Hnd("evalArray")
  ELSE IF name = JsonMap THEN Hnd("evalMap")
  ELSE HndName("unknown", name)

Ret(val, err, trace) == [val |-> val, err |-> err, trace |-> trace]

ArgsEvent(r, args, res) ==
  [ev |-> "evalargs", r |-> r, args |-> args, err |-> res.err, sub |-> res.trace]

\* lines 71-82: res is what EvalArgs returned
evalStringValues(r, args, res) ==
  LET tr == <<ArgsEvent(r, args, res)>>
      values == res.vals.elems
  IN IF res.err # NoErr THEN Ret(NilV, res.err, tr)
     ELSE IF Len(values) # 1 THEN Ret(NilV, Err("json: incorrect number of args"), tr)
     ELSE IF values[1].t # "Raw" THEN Ret(NilV, Err("json: incorrect type"), tr)
     ELSE Ret(StringV(Unescape(values[1].b)), NoErr, tr)

evalString(r, args) == evalStringValues(r, args, EvalArgs(r, args))

\* lines 63-66: res is what evalString returned
evalNumberParsed(res) ==
  IF res.err = NoErr
  THEN Ret(ParseFloat(res.val.s).val, ParseFloat(res.val.s).err, res.trace)
  ELSE Ret(NilV, res.err, res.trace)

evalNumber(r, args) == evalNumberParsed(evalString(r, args))

evalArrayValues(r, args, res) ==
  Ret(ArrayV(res.vals), res.err, <<ArgsEvent(r, args, res)>>)

evalArray(r, args) == evalArrayValues(r, args, EvalArgs(r, args))

\* the index of the key and of the value read in the iteration at kk
\* (lines 100 and 104)
MapKeyIndex(kk) == 0
MapValueIndex(kk) == 1

\* the loop of lines 99-105 from counter kk on; m is `result`
RECURSIVE evalMapLoop(_, _, _)
evalMapLoop(v, kk, m) ==
  IF kk >= Len(v) THEN [val |-> MapV(m), err |-> NoErr]
  ELSE LET key == At(v, MapKeyIndex(kk))
       IN IF key.t # "Raw"
          THEN [val |-> NilV, err |-> Err("json:map allows string keys only")]
          ELSE LET k == Unescape(key.b)
                   rest == [x \in DOMAIN m \ {k} |-> m[x]]
               IN evalMapLoop(v, kk + 2, (k :> At(v, MapValueIndex(kk))) @@ rest)

\* lines 91-106: res is what EvalArgs returned
evalMapValues(r, args, res) ==
  LET tr == <<ArgsEvent(r, args, res)>>
      v == res.vals.elems
  IN IF res.err # NoErr THEN Ret(NilV, res.err, tr)
     ELSE IF Len(v) % 2 # 0
     THEN Ret(NilV, Err("json:map expects even number of args"), tr)
     ELSE Ret(evalMapLoop(v, 0, <<>>).val, evalMapLoop(v, 0, <<>>).err, tr)

evalMap(r, args) == evalMapValues(r, args, EvalArgs(r, args))

(* ------------------------------------------------------------------ *)
(* The lookup functions the repository wraps and the Handlers they     *)
(* return                                                              *)
(* ------------------------------------------------------------------ *)

\* the closure r of TestRecursion: "x" is a Handler that returns the
\* json:string Handler, every other name goes to json.Resolve
TestRecursionLookup(name) ==
  IF name = <<"x">> THEN Hnd("returnsStringHandler") ELSE Resolve(name)

\* the closure r of TestMissingFunction
TestMissingLookup(name) == ErrorHandler(Err("some error"))

\* a consumer's lookup whose Handlers are opaque to the package: the
\* Handler for a name returns a value recording what it was called with
ConsumerLookup(name) == HndName("consumer", name)

LookupIds == {"json", "testRecursion", "testMissing", "consumer"}

Lookup(id, name) ==
  CASE id = "json" -> Resolve(name)
    [] id = "testRecursion" -> TestRecursionLookup(name)
    [] id = "testMissing" -> TestMissingLookup(name)
    [] id = "consumer" -> ConsumerLookup(name)

\* what a consumer's Handler returns
CallV(name, r, args) == [t |-> "Call", name |-> name, r |-> r, args |-> args]

\* h(r, args) for a Handler value h
ApplyHandler(h, r, args) ==
  CASE h.h = "error" -> Ret(NilV, h.err, <<>>)
    [] h.h = "consumer" -> Ret(CallV(h.name, r, args), NoErr, <<>>)
    [] h.h = "returnsStringHandler" -> Ret(HandlerV(Resolve(JsonString)), NoErr, <<>>)
    [] h.h = "unknown" -> Ret(NilV, ErrArg("json: unknown type: ", h.name), <<>>)
    [] h.h = "evalNull" -> Ret(NilV, NoErr, <<>>)
    [] h.h = "evalString" -> evalString(r, args)
    [] h.h = "evalNumber" -> evalNumber(r, args)
    [] h.h = "evalArray" -> evalArray(r, args)
    [] h.h = "evalMap" -> evalMap(r, args)

\* json.Decode (json/json.go 34-36)
Decode(b) == Eval(RecurseR("json"), b)

(* ------------------------------------------------------------------ *)
(* Package json: Encode (json/json.go 25-31, 109-169)                  *)
(*                                                                     *)
(* A Go value to encode is [t |-> "nil"], [t |-> "int", n],            *)
(* [t |-> "float64", m, e], [t |-> "string", s], [t |-> "array", ...], *)
(* [t |-> "map", m] or [t |-> "other"] (any other Go type).  range     *)
(* over a map visits the keys in an order Go does not fix, so EncodeTo *)
(* yields the set of the writer states it can end in.                  *)
(* ------------------------------------------------------------------ *)

IntV(n) == [t |-> "int", n |-> n]
OtherV == [t |-> "other"]

RECURSIVE JoinArgs(_)
JoinArgs(args) ==
  IF args = <<>> THEN <<>> ELSE <<Pipe>> \o Head(args) \o JoinArgs(Tail(args))

\* call(w, name, args...): the bytes written
CallBytes(name, args) == <<Open>> \o name \o JoinArgs(args) \o <<Close>>

\* all orders of the elements of a finite set
RECURSIVE Perms(_)
Perms(S) ==
  IF S = {} THEN {<<>>}
  ELSE UNION {{<<x>> \o p : p \in Perms(S \ {x})} : x \in S}

RECURSIVE EncodeTo(_, _), EncodeElems(_, _), EncodeEntries(_, _, _)

\* the loop of lines 147-152 over the elements left; ws is a set of [w, err]
EncodeElems(w, elems) ==
  IF elems = <<>> THEN {[w |-> w, err |-> NoErr]}
  ELSE UNION {IF e.err # NoErr THEN {e} ELSE EncodeElems(e.w, Tail(elems))
              : e \in EncodeTo(w \o <<Pipe>>, Head(elems))}

\* the loop of lines 156-163 over the keys left, in the order keys
EncodeEntries(w, m, keys) ==
  IF keys = <<>> THEN {[w |-> w, err |-> NoErr]}
  ELSE UNION {IF e.err # NoErr THEN {e} ELSE EncodeEntries(e.w, m, Tail(keys))
              : e \in EncodeTo(w \o <<Pipe>> \o Escape(Head(keys)) \o <<Pipe>>,
                               m[Head(keys)])}

\* the closing write of lines 153 and 164, skipped on an early return
CloseAll(ws) ==
  {IF e.err # NoErr THEN e ELSE [e EXCEPT !.w = @ \o <<Close>>] : e \in ws}

EncodeTo(w, v) ==
  CASE v.t = "nil" -> {[w |-> w \o CallBytes(JsonNull, <<>>), err |-> NoErr]}
    [] v.t = "int" ->
         {[w |-> w \o CallBytes(JsonNumber, <<FormatInt(v.n)>>), err |-> NoErr]}
    [] v.t = "float64" ->
         {[w |-> w \o CallBytes(JsonNumber, <<FormatFloat(v)>>), err |-> NoErr]}
    [] v.t = "string" ->
         {[w |-> w \o CallBytes(JsonString, <<Escape(v.s)>>), err |-> NoErr]}
    [] v.t = "array" -> CloseAll(EncodeElems(w \o <<Open>> \o JsonArray, v.elems))
    [] v.t = "map" ->
         UNION {CloseAll(EncodeEntries(w \o <<Open>> \o JsonMap, v.m, keys))
                : keys \in Perms(DOMAIN v.m)}
    [] OTHER -> {[w |-> w, err |-> Err("json: unknown type")]}

\* json.Encode: the (bytes, error) pairs it can return
Encode(v) ==
  {IF e.err # NoErr THEN [b |-> <<>>, err |-> e.err] ELSE [b |-> e.w, err |-> NoErr]
   : e \in EncodeTo(<<>>, v)}

(* ------------------------------------------------------------------ *)
(* Inputs                                                              *)
(* ------------------------------------------------------------------ *)

\* an input is [kind, s, v]: a byte sequence s, or a Go value v
BytesInput(s) == [kind |-> "bytes", s |-> s, v |-> NilV]
AbsentInput == [kind |-> "absent", s |-> <<>>, v |-> NilV]
TextInput(s) == [kind |-> "text", s |-> s, v |-> NilV]
ValueInput(v) == [kind |-> "value", s |-> <<>>, v |-> v]

\* every byte sequence over the alphabet, up to MaxLen
ByteSeqs == SeqsUpTo(Alphabet, MaxLen)

\* name wrapped in n pairs of brackets
RECURSIVE Wrapped(_, _)
Wrapped(name, n) ==
  IF n = 0 THEN name ELSE <<Open>> \o Wrapped(name, n - 1) \o <<Close>>

\* calls whose Name is itself a call, nested up to MaxNest deep, without
\* args, with empty args and with one argument
NestedCalls ==
  UNION {{Wrapped(name, n),
          <<Open>> \o Wrapped(name, n - 1) \o <<Pipe, Close>>,
          <<Open>> \o Wrapped(name, n - 1) \o <<Pipe>> \o arg \o <<Close>>}
         : name \in {<<"x">>, <<>>, JsonString, <<"x", BSlash>>},
           n \in 1..MaxNest,
           arg \in {<<"x">>, <<Open, "x", Pipe, Close>>, <<BSlash>>}}

\* the arguments json:map calls are drawn from: two atoms, two calls that
\* evaluate to something that is not Raw, and one call that fails
MapArgChoices ==
  {<<"a">>, <<"b", BSlash, Pipe>>,
   CallBytes(JsonNull, <<>>), CallBytes(JsonNumber, <<<<"1">>>>),
   <<Open, "x", Close>>}

MapArgLists == SeqsUpTo(MapArgChoices, MaxMapArgs)

MapCall(args) == CallBytes(JsonMap, args)

\* the Go values Encode is given
JsonLeaves ==
  {NilV, IntV(7), IntV(-120), Float64V(25, -1),
   [t |-> "string", s |-> <<>>],
   [t |-> "string", s |-> <<"x", Pipe, BSlash>>],
   [t |-> "string", s |-> <<Open, Close>>]}

JsonKeys == {<<"a">>, <<>>, <<Pipe, "b">>}

GoArray(elems) == [t |-> "array", isnil |-> FALSE, elems |-> elems]
GoNilArray == [t |-> "array", isnil |-> TRUE, elems |-> <<>>]
GoMap(m) == [t |-> "map", m |-> m]

\* arrays of up to n elements and maps of up to n keys over the values S
Containers(S, n) ==
  {GoArray(e) : e \in SeqsUpTo(S, n)}
  \cup {GoNilArray}
  \cup UNION {{GoMap(m) : m \in [K -> S]}
              : K \in {K \in SUBSET JsonKeys : Cardinality(K) <= n}}

JsonValues ==
  LET flat == Containers(JsonLeaves, MaxElems)
      small == Containers({NilV, IntV(7)}, MaxElems)
  IN JsonLeaves \cup flat
     \cup {GoArray(<<c, l>>) : c \in small, l \in {NilV, OtherV}}
     \cup {GoMap(<<"a">> :> c) : c \in flat}
     \cup {OtherV, GoArray(<<OtherV>>), GoMap(<<"a">> :> OtherV)}

Inputs ==
  {BytesInput(s) : s \in ByteSeqs \cup NestedCalls}
  \cup {AbsentInput}
  \cup {TextInput(MapCall(args)) : args \in MapArgLists}
  \cup {ValueInput(v) : v \in JsonValues}

NoOut == [b |-> <<>>]

\* the resolvers Eval, EvalArgs and Recurse are run with
PlainResolvers == {LookupR("consumer"), LookupR("testRecursion")}
WrappedResolvers == {RecurseR(id) : id \in LookupIds}

(* ------------------------------------------------------------------ *)
(* The state machine: one input is drawn, then an operation is applied *)
(* ------------------------------------------------------------------ *)

Init ==
  /\ pc = "start"
  /\ op = "none"
  /\ inp \in Inputs
  /\ out = NoOut

DoEscape ==
  /\ pc = "start"
  /\ inp.kind = "bytes"
  /\ Len(inp.s) <= MaxEscLen
  /\ pc' = "escaped"
  /\ op' = "Escape"
  /\ out' = [b |-> Escape(inp.s)]
  /\ UNCHANGED inp

DoUnescape ==
  /\ pc = "start"
  /\ inp.kind = "bytes"
  /\ pc' = "done"
  /\ op' = "Unescape"
  /\ out' = [b |-> Unescape(inp.s)]
  /\ UNCHANGED inp

\* Unescape applied to the bytes Escape returned
DoUnescapeEscaped ==
  /\ pc = "escaped"
  /\ pc' = "done"
  /\ op' = "EscapeUnescape"
  /\ out' = [b |-> Unescape(out.b)]
  /\ UNCHANGED inp

\* Eval(r, s) with a lookup function as the resolver
DoEval ==
  /\ pc = "start"
  /\ inp.kind = "bytes"
  /\ \E r \in PlainResolvers :
       out' = [r |-> r, res |-> Eval(r, inp.s)]
  /\ pc' = "done"
  /\ op' = "Eval"
  /\ UNCHANGED inp

\* Eval(lookup.Recurse, s)
DoEvalRecursive ==
  /\ pc = "start"
  /\ inp.kind = "bytes"
  /\ \E r \in WrappedResolvers :
       out' = [r |-> r, res |-> Eval(r, inp.s)]
  /\ pc' = "done"
  /\ op' = "Eval"
  /\ UNCHANGED inp

\* EvalArgs(r, s) on the nil slice and on non-nil slices
DoEvalArgs ==
  /\ pc = "start"
  /\ inp.kind \in {"bytes", "absent"}
  /\ \E r \in {LookupR("consumer"), RecurseR("testRecursion")} :
       LET a == IF inp.kind = "absent" THEN NilArgs ELSE Args(inp.s)
       IN out' = [r |-> r, args |-> a, res |-> EvalArgs(r, a)]
  /\ pc' = "done"
  /\ op' = "EvalArgs"
  /\ UNCHANGED inp

\* lookup.Recurse(name)
DoRecurse ==
  /\ pc = "start"
  /\ inp.kind = "bytes"
  /\ \E id \in LookupIds :
       out' = [id |-> id, res |-> Recurse(id, inp.s)]
  /\ pc' = "done"
  /\ op' = "Recurse"
  /\ UNCHANGED inp

\* json.Encode(v)
DoEncode ==
  /\ pc = "start"
  /\ inp.kind = "value"
  /\ \E e \in Encode(inp.v) : out' = e
  /\ pc' = "encoded"
  /\ op' = "Encode"
  /\ UNCHANGED inp

\* json.Decode of the bytes Encode returned
DoDecodeEncoded ==
  /\ pc = "encoded"
  /\ out.err = NoErr
  /\ out' = [enc |-> out.b, res |-> Decode(out.b)]
  /\ pc' = "done"
  /\ op' = "EncodeDecode"
  /\ UNCHANGED inp

\* json.Decode(b)
DoDecode ==
  /\ pc = "start"
  /\ inp.kind \in {"text", "bytes"}
  /\ out' = [res |-> Decode(inp.s)]
  /\ pc' = "done"
  /\ op' = "Decode"
  /\ UNCHANGED inp

Next ==
  \/ DoEscape
  \/ DoUnescape
  \/ DoUnescapeEscaped
  \/ DoEval
  \/ DoEvalRecursive
  \/ DoEvalArgs
  \/ DoRecurse
  \/ DoEncode
  \/ DoDecodeEncoded
  \/ DoDecode

Spec == Init /\ [][Next]_vars

(* ------------------------------------------------------------------ *)
(* What the claims speak of, stated on positions of the input (1-based) *)
(* and not by the loops above                                          *)
(* ------------------------------------------------------------------ *)

\* the number of escape bytes directly before position i, not going
\* below position lo where the scan starts
EscapeRun(s, lo, i) ==
  Cardinality({n \in 1..(i - lo) : \A j \in 1..n : s[i - j] = BSlash})

\* position i follows an escape byte that is not itself escaped
FollowsEscape(s, lo, i) == EscapeRun(s, lo, i) % 2 = 1

\* an unescaped occurrence of byte c at position i
Unescaped(s, lo, i, c) == s[i] = c /\ ~FollowsEscape(s, lo, i)

\* the bracket depth before position i, base being the depth at lo
DepthBefore(s, lo, i, base) ==
  base + Cardinality({j \in lo..(i - 1) : Unescaped(s, lo, j, Open)})
       - Cardinality({j \in lo..(i - 1) : Unescaped(s, lo, j, Close)})

\* s has the shape "(...)": it begins with '(' and ends with ')'
Bracketed(s) == Len(s) >= 2 /\ s[1] = Open /\ s[Len(s)] = Close

\* the interior positions of a bracketed s
Interior(s) == 2..(Len(s) - 1)

\* in the interior of s: an unescaped '|' at depth 1, and an unescaped
\* ')' that brings the depth to 0
TopPipe(s, i) == Unescaped(s, 2, i, Pipe) /\ DepthBefore(s, 2, i, 1) = 1
BadClose(s, i) == Unescaped(s, 2, i, Close) /\ DepthBefore(s, 2, i, 1) = 1

\* the first top-level pipe of the interior, met before any bad close; 0 if none
FirstTopPipe(s) ==
  LET hits == {i \in Interior(s) :
                 /\ TopPipe(s, i)
                 /\ \A j \in 2..(i - 1) : ~TopPipe(s, j) /\ ~BadClose(s, j)}
  IN IF hits = {} THEN 0 ELSE CHOOSE i \in hits : TRUE

\* a bad close is met before any top-level pipe
BadCloseFirst(s) ==
  \E i \in Interior(s) : BadClose(s, i) /\ \A j \in 2..(i - 1) : ~TopPipe(s, j)

\* the interior has no top-level pipe and no bad close
NoPipeNoBadClose(s) == \A i \in Interior(s) : ~TopPipe(s, i) /\ ~BadClose(s, i)

\* the depth at the end of the interior
EndDepth(s) == DepthBefore(s, 2, Len(s), 1)

\* the events of a trace and of everything below it
RECURSIVE AllEvents(_)
AllEvents(trace) ==
  IF trace = <<>> THEN <<>>
  ELSE <<Head(trace)>> \o AllEvents(Head(trace).sub) \o AllEvents(Tail(trace))

\* the elements of s at the positions of the set keep, in order
Pick(s, keep) ==
  [n \in 1..Cardinality(keep) |->
     s[CHOOSE i \in keep : Cardinality({k \in keep : k <= i}) = n]]

(* ------------------------------------------------------------------ *)
(* Claims                                                              *)
(* ------------------------------------------------------------------ *)

\* Eval made exactly the two calls r(name) and then h(r, args), h being
\* the Handler r(name) returned, and returned what h returned
CalledOnce(res, r, name, args) ==
  /\ Len(res.trace) = 2
  /\ res.trace[1].ev = "resolve"
  /\ res.trace[1].r = r
  /\ res.trace[1].name = name
  /\ res.trace[2].ev = "handle"
  /\ res.trace[2].h = res.trace[1].h
  /\ res.trace[2].r = r
  /\ res.trace[2].args = args
  /\ res.val = ApplyHandler(res.trace[1].h, r, args).val
  /\ res.err = ApplyHandler(res.trace[1].h, r, args).err
  /\ (r = LookupR("consumer") => res.val = CallV(name, r, args))

\* C1: for an input "(...)" whose interior meets an unescaped '|' at depth 1
\* before any bracket error, Eval calls the resolver once with the bytes
\* between '(' and that pipe, calls the returned Handler once with the bytes
\* after the pipe up to the final ')', and returns its result; when the
\* balanced interior has no such pipe the resolver gets the whole interior
\* and the Handler the nil args, which differ from the empty args of "(name|)".
C1_EvalSplitsNameAndArgs ==
  (op = "Eval" /\ Bracketed(inp.s)) =>
    LET s == inp.s
        p == FirstTopPipe(s)
    IN /\ p # 0 =>
            CalledOnce(out.res, out.r, SubSeq(s, 2, p - 1),
                       [absent |-> FALSE, b |-> SubSeq(s, p + 1, Len(s) - 1)])
       /\ (NoPipeNoBadClose(s) /\ EndDepth(s) = 1) =>
            CalledOnce(out.res, out.r, SubSeq(s, 2, Len(s) - 1),
                       [absent |-> TRUE, b |-> <<>>])

\* a call whose args hold a nested call with a pipe of its own was split
C1_Witness ==
  /\ op = "Eval"
  /\ inp.s = <<Open, Open, "x", Close, Pipe, Open, "x", Pipe, Close, Close>>
  /\ out.r = LookupR("consumer")
  /\ out.res.val = CallV(<<Open, "x", Close>>, out.r, Args(<<Open, "x", Pipe, Close>>))

\* C2: Unescape(Escape(x)) = x for every byte sequence x
C2_RoundTrip == op = "EscapeUnescape" => out.b = inp.s

\* a sequence holding all four special bytes went through Escape and Unescape
C2_Witness ==
  /\ op = "EscapeUnescape"
  /\ \A c \in {BSlash, Open, Close, Pipe} : \E i \in 1..Len(inp.s) : inp.s[i] = c
  /\ out.b = inp.s

\* C4: for an input that begins with '(', Eval itself fails with "missing )"
\* exactly when the last byte is not ')'; otherwise with "mismatched )"
\* exactly when an unescaped ')' brings the depth to 0 before any unescaped
\* '|' at depth 1; otherwise, with no such pipe, with "mismatched (" exactly
\* when the depth at the end is not 1; each time the value is nil.
C4_ErrorClassification ==
  (op = "Eval" /\ Len(inp.s) >= 1 /\ inp.s[1] = Open) =>
    LET s == inp.s
        res == out.res
        closed == s[Len(s)] = Close
        own(e) == res.err = e /\ res.val = NilV /\ res.trace = <<>>
    IN /\ res.at = 108 <=> ~closed
       /\ res.at = 123 <=> (closed /\ BadCloseFirst(s))
       /\ res.at = 129 <=> (closed /\ NoPipeNoBadClose(s) /\ EndDepth(s) # 1)
       /\ res.at \in {108, 123, 129, 117, 132}
       /\ res.at = 108 => own(Err("nice: missing )"))
       /\ res.at = 123 => own(Err("nice: mismatched )"))
       /\ res.at = 129 => own(Err("nice: mismatched ("))

\* each of the three failures happened: this one is "mismatched (" on an
\* input whose escape byte keeps a ')' from closing the inner bracket
C4_Witness ==
  /\ op = "Eval"
  /\ inp.s = <<Open, Open, BSlash, Close, Close>>
  /\ out.res.at = 129
  /\ out.res.err = Err("nice: mismatched (")

\* the positions of the unescaped '|' at depth 0 of rawArgs
ArgPipes(s) ==
  {i \in 1..Len(s) : Unescaped(s, 1, i, Pipe) /\ DepthBefore(s, 1, i, 0) = 0}

\* the n-th pipe-delimited segment of s, the pipes being at positions P
Segment(s, P, n) ==
  LET cuts == Pick([i \in 1..Len(s) |-> i], P)
      from == IF n = 1 THEN 1 ELSE cuts[n - 1] + 1
      to == IF n = Cardinality(P) + 1 THEN Len(s) ELSE cuts[n] - 1
  IN SubSeq(s, from, to)

\* C5: EvalArgs on the nil marker returns zero values and no error; on a
\* non-nil rawArgs for which it returns no error it returns k+1 values, k
\* being the number of unescaped '|' at depth 0, the i-th being Eval of the
\* i-th segment (Raw of the empty sequence for an empty segment).
C5_ArgumentCount ==
  op = "EvalArgs" =>
    LET res == out.res
        s == out.args.b
        P == ArgPipes(s)
    IN /\ out.args.absent => res.err = NoErr /\ Len(res.vals.elems) = 0
       /\ (~out.args.absent /\ res.err = NoErr) =>
            /\ Len(res.vals.elems) = Cardinality(P) + 1
            /\ \A n \in 1..(Cardinality(P) + 1) :
                 /\ res.vals.elems[n] = Eval(out.r, Segment(s, P, n)).val
                 /\ Segment(s, P, n) = <<>> => res.vals.elems[n] = RawV(<<>>)

\* three values came back for two top-level pipes, the last segment empty
\* and the middle one a call with a pipe of its own
C5_Witness ==
  /\ op = "EvalArgs"
  /\ inp.s = <<Pipe, Open, Pipe, Close, Pipe>>
  /\ out.r = LookupR("consumer")
  /\ out.res.err = NoErr
  /\ Len(out.res.vals.elems) = 3
  /\ out.res.vals.elems[2] = CallV(<<>>, out.r, Args(<<>>))
  /\ out.res.vals.elems[3] = RawV(<<>>)

\* what Unescape is said to return: s without its escape bytes that are
\* not themselves escaped
WithoutEscapes(s) ==
  Pick(s, {i \in 1..Len(s) : ~Unescaped(s, 1, i, BSlash)})

\* C3: Unescape(s) is s with every escape byte that is not itself escaped
\* removed and the byte after it kept; an escape byte at the very end is
\* removed too, whether or not s holds an earlier escape byte.
C3_UnescapeRemovesEveryEscape ==
  op = "Unescape" => out.b = WithoutEscapes(inp.s)

\* C6: for every name that does not start with '(', the empty name
\* included, r.Recurse(name) returns r(name) without evaluating the name.
C6_RecurseDelegatesDirectly ==
  (op = "Recurse" /\ (inp.s = <<>> \/ inp.s[1] # Open)) =>
    /\ out.res.h = Lookup(out.id, inp.s)
    /\ \A i \in 1..Len(out.res.trace) : out.res.trace[i].ev # "eval"

\* a Go value built from nil, numbers, strings, arrays and maps only
RECURSIVE JsonLike(_)
JsonLike(v) ==
  CASE v.t \in {"nil", "int", "float64", "string"} -> TRUE
    [] v.t = "array" -> \A i \in 1..Len(v.elems) : JsonLike(v.elems[i])
    [] v.t = "map" -> \A k \in DOMAIN v.m : JsonLike(v.m[k])
    [] OTHER -> FALSE

\* v with every number a float64; a nil and an empty array are not told apart
RECURSIVE AsFloats(_)
AsFloats(v) ==
  CASE v.t = "int" -> Float64V(v.n, 0)
    [] v.t = "array" -> [t |-> "array", elems |-> [i \in 1..Len(v.elems) |-> AsFloats(v.elems[i])]]
    [] v.t = "map" -> [t |-> "map", m |-> [k \in DOMAIN v.m |-> AsFloats(v.m[k])]]
    [] OTHER -> v

\* no number of v is an int
RECURSIVE NoInts(_)
NoInts(v) ==
  CASE v.t = "int" -> FALSE
    [] v.t = "array" -> \A i \in 1..Len(v.elems) : NoInts(v.elems[i])
    [] v.t = "map" -> \A k \in DOMAIN v.m : NoInts(v.m[k])
    [] OTHER -> TRUE

\* C7: for every JSON-like value v, Encode(v) succeeds and Decode(Encode(v))
\* returns no error and a value equal to v with every number a float64,
\* every map key and its own value preserved.
C7_JsonRoundTrip ==
  /\ (op = "Encode" /\ JsonLike(inp.v)) => out.err = NoErr
  /\ (op = "EncodeDecode" /\ JsonLike(inp.v)) =>
       /\ out.res.err = NoErr
       /\ NoInts(out.res.val)
       /\ AsFloats(out.res.val) = AsFloats(inp.v)

\* the arguments all evaluate without error
AllEvaluate(args) ==
  \A i \in 1..Len(args) : Eval(RecurseR("json"), args[i]).err = NoErr

\* the argument evaluates to an atomic Raw value
IsAtom(arg) == Eval(RecurseR("json"), arg).val.t = "Raw"

\* C8: decoding a json:map call whose arguments all evaluate without error
\* fails with "json:map expects even number of args" when their number is
\* odd, otherwise with "json:map allows string keys only" when the argument
\* at any even position (0, 2, 4, ...) is not an atomic Raw value, and
\* succeeds only when every one of them is.
C8_MapErrors ==
  (op = "Decode" /\ inp.kind = "text") =>
    \A args \in MapArgLists :
      (inp.s = MapCall(args) /\ AllEvaluate(args)) =>
        LET keysRaw == \A i \in 1..Len(args) : i % 2 = 1 => IsAtom(args[i])
        IN out.res.err =
             IF Len(args) % 2 # 0 THEN Err("json:map expects even number of args")
             ELSE IF ~keysRaw THEN Err("json:map allows string keys only")
             ELSE NoErr

\* C9: in Eval a byte right after an unescaped escape byte is a literal at
\* every position, the last one included: an input that starts with '(' and
\* whose final ')' follows an unescaped escape byte has no closing bracket,
\* is not accepted as a call, and the resolver is never invoked for it.
C9_EscapedFinalBracket ==
  (op = "Eval" /\ Bracketed(inp.s) /\ FollowsEscape(inp.s, 2, Len(inp.s))) =>
    /\ out.res.trace = <<>>
    /\ out.res.at \notin {117, 132}

\* C10: with the recursive wrapper of a lookup r, a Name that starts with
\* '(' is evaluated with that same recursive resolver at every level: the
\* Handlers invoked while evaluating the Name receive the recursive
\* resolver, and r is never called with a name that starts with '('.
C10_RecursiveAtEveryLevel ==
  (op = "Eval" /\ out.r.kind = "recurse" /\ out.res.trace # <<>>) =>
    LET inName == AllEvents(out.res.trace[1].sub)
    IN \A i \in 1..Len(inName) :
         /\ inName[i].ev = "handle" => inName[i].r = out.r
         /\ (inName[i].ev = "resolve" /\ inName[i].r.kind = "lookup") =>
              (inName[i].name = <<>> \/ inName[i].name[1] # Open)

====
